---- MODULE Spec2Model ----
(***************************************************************************)
(* The netlist compiler of the circuit-solver server:                      *)
(* convertGraphToNetlist of src/Server/Server.js (lines 74-111).           *)
(*                                                                         *)
(* A call is modelled statement by statement: the entry check together     *)
(* with the ground reduction and the declarations of the locals, one step  *)
(* per iteration of nodes.forEach, one step per iteration of               *)
(* edges.forEach, and the return.  The graph is the input; it is drawn in  *)
(* Init and never changes.  A finished call can be followed by another     *)
(* call on the same graph.                                                 *)
(*                                                                         *)
(* The solve route of the same server (lines 221-259) is modelled further  *)
(* down, with its own specification SpecRoute: the requests, the file      *)
(* system and the solver processes.  Spec steps through one call of the    *)
(* compiler while no request is served; SpecRoute serves requests and      *)
(* evaluates the compiler as a function.                                   *)
(*                                                                         *)
(* JavaScript values are encoded as follows.                               *)
(*   - a point {x, y} is a record [x, y] of naturals;                      *)
(*   - an edge value is [type, micro, text]: a number (type "number",      *)
(*     worth micro * 10^-6) or a string (type "string", text);             *)
(*   - undefined is the string Undefined, NaN the number NaN;              *)
(*   - the netlist text is the sequence of its lines, a line being the     *)
(*     sequence of the fields that the template literal joins with one     *)
(*     space; every line is terminated by "\n" in the program.             *)
(***************************************************************************)
EXTENDS Integers, Sequences, FiniteSets, TLC

(***************************************************************************)
(* Bounds of the model.                                                    *)
(***************************************************************************)
MaxCoord == 1
MaxNodes == 3
MaxEdges == 2
MaxCalls == 2

(***************************************************************************)
(* String conversions of template literals.                                *)
(***************************************************************************)
Digits == <<"0", "1", "2", "3", "4", "5", "6", "7", "8", "9">>

RECURSIVE NumberToString(_)
NumberToString(n) ==
    IF n < 10 THEN Digits[n + 1]
    ELSE NumberToString(n \div 10) \o Digits[(n % 10) + 1]

Undefined == "undefined"
NaN == -1

\* The w low decimal digits of f, most significant first.
RECURSIVE FixedDigits(_, _)
FixedDigits(f, w) ==
    IF w = 0 THEN "" ELSE FixedDigits(f \div 10, w - 1) \o Digits[(f % 10) + 1]

\* The fraction f / 10^w without its trailing zeros (f > 0).
RECURSIVE FractionToString(_, _)
FractionToString(f, w) ==
    IF f % 10 = 0 THEN FractionToString(f \div 10, w - 1) ELSE FixedDigits(f, w)

\* Number::toString of m * 10^-6, for 0 < m: decimal notation from 1e-6 on.
MicroToString(m) ==
    IF m % 1000000 = 0 THEN NumberToString(m \div 1000000)
    ELSE NumberToString(m \div 1000000) \o "." \o FractionToString(m % 1000000, 6)

NumberValue(m) == [type |-> "number", micro |-> m, text |-> ""]
StringValue(s) == [type |-> "string", micro |-> 0, text |-> s]

ValueToString(v) == IF v.type = "string" THEN v.text ELSE MicroToString(v.micro)

CountToString(c) == IF c = NaN THEN "NaN" ELSE NumberToString(c)

\* `${n.x},${n.y}`
Key(p) == NumberToString(p.x) \o "," \o NumberToString(p.y)

(***************************************************************************)
(* The ground reduction (lines 78-82).                                     *)
(***************************************************************************)
\* Variant: the tie on y is not broken on x.
LowerNoTie(lowest, node) == IF node.y > lowest.y THEN node ELSE lowest

Lower(lowest, node) ==
    IF node.y > lowest.y THEN node
    ELSE IF node.y = lowest.y /\ node.x < lowest.x THEN node
    ELSE lowest

RECURSIVE ReduceFrom(_, _, _)
ReduceFrom(ns, i, lowest) ==
    IF i > Len(ns) THEN lowest ELSE ReduceFrom(ns, i + 1, Lower(lowest, ns[i]))

GroundNode(ns) == ReduceFrom(ns, 1, ns[1])

(***************************************************************************)
(* The kind table and the counters (lines 92-96, 99-101).                  *)
(***************************************************************************)
typeMap ==
    [resistor |-> "R", capacitor |-> "C", inductor |-> "L",
     voltage_source |-> "V", current_source |-> "I", wire |-> "W"]

\* typeMap is an object literal: a key it does not own is looked up in
\* Object.prototype.  The values are given by their string conversion.
ObjectPrototype ==
    [constructor |-> "function Object() { [native code] }",
     toString |-> "function toString() { [native code] }"]

\* typeMap[e.component]
TypeOf(component) ==
    IF component \in DOMAIN typeMap THEN typeMap[component]
    ELSE IF component \in DOMAIN ObjectPrototype THEN ObjectPrototype[component]
    ELSE Undefined

\* !type
Falsy(type) == type = Undefined

ZeroCounts == [R |-> 0, C |-> 0, L |-> 0, V |-> 0, I |-> 0, W |-> 0]

\* Variant: one increment advances every counter.
PreIncrementAll(cs, type) ==
    [k \in DOMAIN cs \cup {type} |->
        IF k \in DOMAIN cs /\ cs[k] # NaN THEN cs[k] + 1 ELSE NaN]

\* ++counts[type]: the counters after the increment.
PreIncrement(cs, type) ==
    LET old == IF type \in DOMAIN cs THEN cs[type] ELSE NaN
        new == IF old = NaN THEN NaN ELSE old + 1
    IN  [k \in DOMAIN cs \cup {type} |-> IF k = type THEN new ELSE cs[k]]

\* nodeMap.get(id)
MapGet(m, id) == IF id \in DOMAIN m THEN m[id] ELSE Undefined

\* nodeMap.set(id, label)
MapSet(m, id, label) == [k \in DOMAIN m \cup {id} |-> IF k = id THEN label ELSE m[k]]

EmptyMap == << >>

\* id === groundId ? '0' : `n${nodeCounter++}`: the label, and the counter afterwards.
NodeLabel(id, ground, counter) ==
    IF id = ground THEN "0" ELSE "n" \o NumberToString(counter)

\* Variant: the ground advances the counter too.
CounterAlways(id, ground, counter) == counter + 1

\* Variant: the counter is never advanced.
CounterKept(id, ground, counter) == counter

CounterAfter(id, ground, counter) == IF id = ground THEN counter ELSE counter + 1

\* Variant: one known endpoint is enough.
EitherDefined(n1, n2) == n1 # Undefined \/ n2 # Undefined

\* n1 !== undefined && n2 !== undefined
BothDefined(n1, n2) == n1 # Undefined /\ n2 # Undefined

\* Variant: only the node list is looked at.
RejectsNodesOnly(g) == ~g.hasNodes \/ Len(g.nodes) = 0

\* !nodes || nodes.length === 0 || !edges || edges.length === 0
Rejects(g) ==
    ~g.hasNodes \/ Len(g.nodes) = 0 \/ ~g.hasEdges \/ Len(g.edges) = 0

Header == <<"* Auto-generated netlist">>

\* if (e.component === 'wire') val = 1e-6
WireValue == NumberValue(1)

\* Variant: a wire keeps its stored value.
StoredValueOf(e) == e.value

ValueOf(e) == IF e.component = "wire" THEN WireValue ELSE e.value

NullResult == [null |-> TRUE, text |-> << >>]
TextResult(lines) == [null |-> FALSE, text |-> lines]

(***************************************************************************)
(* The inputs.                                                             *)
(***************************************************************************)
Coords == [x : 0..MaxCoord, y : 0..MaxCoord]

Components ==
    {"resistor", "capacitor", "inductor", "voltage_source", "current_source",
     "wire", "diode", "constructor"}

Values == {NumberValue(2000000), StringValue("4.7k")}

Origin == [x |-> 0, y |-> 0]
Below == [x |-> 0, y |-> 1]
Aside == [x |-> 1, y |-> 1]

Edges == [from : {Origin}, to : {Below, Aside}, component : Components, value : Values]

NodeLists == UNION {[1..n -> Coords] : n \in 0..MaxNodes}
EdgeLists == UNION {[1..n -> Edges] : n \in 0..MaxEdges}

\* The node list every edge list is tried with, and the edge lists every node
\* list is tried with.
ProbeNodes == {<<Origin, Below>>}
ProbeEdges ==
    {<< >>,
     <<[from |-> Origin, to |-> Below, component |-> "resistor", value |-> NumberValue(2000000)],
       [from |-> Origin, to |-> Aside, component |-> "wire", value |-> NumberValue(2000000)]>>}

VARIABLES
    graphData,    \* the argument: [hasNodes, nodes, hasEdges, edges]
    pc,           \* position of the call: "start", "naming", "edges", "done"
    groundId,     \* const groundId
    nodeMap,      \* const nodeMap
    nodeCounter,  \* let nodeCounter
    ni,           \* nodes.forEach: number of nodes visited
    counts,       \* const counts
    netlist,      \* let netlist
    ei,           \* edges.forEach: number of edges visited
    names,        \* history: the name of each visited edge ("" when it returned early)
    emitted,      \* history: whether each visited edge appended a line
    returned,     \* history: the value returned by each finished call
    finished      \* history: the ground, labels and names of each finished call

VARIABLES
    rpc,          \* position of each request: "new", "running", "exited", "done"
    user,         \* req.user.id of each request
    steps,        \* history: the steps each request has taken, in order
    closes,       \* history: the number of calls of fs.rmSync each request made
    answers,      \* history: the number of responses each request sent
    dirs,         \* the directories that exist
    files,        \* the files that exist
    event         \* history: the last handler that ran, with its inputs and response

VARIABLES
    ui            \* the client: [pc, timeUnit, simulationTime, timeInSeconds, shown]

compilerVars ==
    <<graphData, pc, groundId, nodeMap, nodeCounter, ni, counts, netlist, ei,
      names, emitted, returned, finished>>

routeVars == <<rpc, user, steps, closes, answers, dirs, files, event>>

uiVars == <<ui>>

\* The client is not in use.
UiIdle ==
    ui = [pc |-> "idle", timeUnit |-> "s", simulationTime |-> 0,
          timeInSeconds |-> [num |-> 0, den |-> 1], shown |-> [num |-> 0, den |-> 1]]

vars == <<compilerVars, routeVars, uiVars>>

nodes == graphData.nodes
edges == graphData.edges

\* The graphs a call is given: every node list with the probe edge lists, and the
\* probe node lists with every edge list; a list may also be absent.
Graph(hn, ns, he, es) == [hasNodes |-> hn, nodes |-> ns, hasEdges |-> he, edges |-> es]

Graphs ==
    {Graph(TRUE, ns, TRUE, es) : ns \in NodeLists, es \in ProbeEdges}
    \cup {Graph(TRUE, ns, TRUE, es) : ns \in ProbeNodes, es \in EdgeLists}
    \cup {Graph(FALSE, << >>, TRUE, es) : es \in ProbeEdges}
    \cup {Graph(TRUE, ns, FALSE, << >>) : ns \in ProbeNodes}
    \cup {Graph(FALSE, << >>, FALSE, << >>)}

(***************************************************************************)
(* The whole call as one evaluation, as the solve route makes it           *)
(* (line 224): the same statements, run to the return.                     *)
(***************************************************************************)
\* Lines 87-90: nodes.forEach from the i-th node on.
RECURSIVE NameNodesFrom(_, _, _, _, _)
NameNodesFrom(ns, i, ground, map, counter) ==
    IF i > Len(ns) THEN map
    ELSE LET id == Key(ns[i])
         IN  NameNodesFrom(ns, i + 1, ground,
                           MapSet(map, id, NodeLabel(id, ground, counter)),
                           CounterAfter(id, ground, counter))

\* Lines 98-109: edges.forEach from the i-th edge on.
RECURSIVE EdgeLinesFrom(_, _, _, _, _)
EdgeLinesFrom(es, i, map, cs, lines) ==
    IF i > Len(es) THEN lines
    ELSE LET e == es[i]
             type == TypeOf(e.component)
         IN  IF Falsy(type) THEN EdgeLinesFrom(es, i + 1, map, cs, lines)
             ELSE LET after == PreIncrement(cs, type)
                      name == type \o CountToString(after[type])
                      n1 == MapGet(map, Key(e.from))
                      n2 == MapGet(map, Key(e.to))
                  IN  EdgeLinesFrom(es, i + 1, map, after,
                          IF BothDefined(n1, n2)
                          THEN Append(lines, <<name, n1, n2, ValueToString(ValueOf(e))>>)
                          ELSE lines)

convertGraphToNetlist(g) ==
    IF Rejects(g) THEN NullResult
    ELSE LET ground == Key(GroundNode(g.nodes))
             map == NameNodesFrom(g.nodes, 1, ground, EmptyMap, 1)
         IN  TextResult(EdgeLinesFrom(g.edges, 1, map, ZeroCounts, <<Header>>))

(***************************************************************************)
(* The solve route: POST /api/solve-circuit (lines 221-259) behind         *)
(* verifyToken (lines 62-71).                                              *)
(*                                                                         *)
(* Node runs a handler to its end before it runs another one, so the       *)
(* route handler (lines 222-241 and the catch of lines 255-258) is one     *)
(* step and the 'close' listener (lines 242-253) is one step; the solver   *)
(* terminates in between, and handlers of other requests may run in        *)
(* between.  A path is the sequence of its segments below __dirname.  The  *)
(* text of a stream, a JSON value and a response are encoded as follows.   *)
(*   - a JSON value is [kind, members]: an object with its members as      *)
(*     <<key, value>> pairs, or null;                                      *)
(*   - a response is [status, kind, message, details, value]: an error     *)
(*     body {error: {message, details}} or the payload value.              *)
(***************************************************************************)
MaxRequests == 2

Requests == 1..MaxRequests

\* user._id of the accounts (line 134).
Ids == {"64a1f0", "64b2e9"}

\* The cookie of a request: absent, not signed by the server, or signed for an id.
NoCookie == [present |-> FALSE, signed |-> FALSE, id |-> ""]
Forged == [present |-> TRUE, signed |-> FALSE, id |-> "64a1f0"]
TokenOf(id) == [present |-> TRUE, signed |-> TRUE, id |-> id]
Tokens == {NoCookie, Forged} \cup {TokenOf(id) : id \in Ids}

\* path.join(base, segment)
PathJoin(base, segment) == Append(base, segment)

ServerDir == << >>

\* Variant: one directory for every identity.
TempDirShared(id) == PathJoin(ServerDir, "temp")

\* path.join(__dirname, 'temp', req.user.id)
TempDir(id) == PathJoin(PathJoin(ServerDir, "temp"), id)

\* path.join(tempDir, 'circuit.net')
NetFile(tempDir) == PathJoin(tempDir, "circuit.net")

\* path.join(__dirname, 'circuit_solver/main.py')
SolverScript == PathJoin(ServerDir, "circuit_solver/main.py")

IsUnder(path, dir) == Len(path) >= Len(dir) /\ SubSeq(path, 1, Len(dir)) = dir

\* The file system: the set of directories, and the files with their content.
\* A file is [content, writer]; writer is history, the request that wrote it.
ExistsSync(ds, path) == path \in ds

MkdirSync(ds, path) == ds \cup {path}

\* Variant: a file that exists is kept (flag 'wx' without the throw).
WriteFileSyncExclusive(fs, path, data) ==
    [q \in DOMAIN fs \cup {path} |-> IF q \in DOMAIN fs THEN fs[q] ELSE data]

WriteFileSync(fs, path, data) ==
    [q \in DOMAIN fs \cup {path} |-> IF q = path THEN data ELSE fs[q]]

\* fs.rmSync(path, { recursive: true, force: true })
RmSyncDirs(ds, path) == {d \in ds : ~IsUnder(d, path)}
RmSyncFiles(fs, path) == [q \in {f \in DOMAIN fs : ~IsUnder(f, path)} |-> fs[q]]

\* The simulationTime field of the graph: absent, null, a number or a string.
Absent == [type |-> "undefined", micro |-> 0, text |-> ""]
Null == [type |-> "null", micro |-> 0, text |-> ""]

SimulationTimes ==
    {Absent, Null, NumberValue(0), StringValue(""), NumberValue(2500000), StringValue("5")}

\* The operand of ||: undefined, null, 0 and "" are falsy.
FalsyValue(v) ==
    \/ v.type \in {"undefined", "null"}
    \/ v.type = "number" /\ v.micro = 0
    \/ v.type = "string" /\ v.text = ""

\* 0.01
DefaultDuration == NumberValue(10000)

\* Variant: the default is taken only when the field is absent.
DurationIfPresent(simulationTime) ==
    IF simulationTime.type = "undefined" THEN DefaultDuration ELSE simulationTime

\* graphData.simulationTime || 0.01
DurationOf(simulationTime) ==
    IF FalsyValue(simulationTime) THEN DefaultDuration ELSE simulationTime

\* t_end.toString(), of a number or a string
DurationToString(t_end) == ValueToString(t_end)

\* The texts a stream of the solver can carry.
ResultText == "{\"time\":[0,0.01],\"R1\":{\"v\":[0,5],\"i\":[0,0.0025]}}"
RejectionText == "{\"error\":\"singular matrix\"}"
Texts == {ResultText, RejectionText, "not json", ""}

\* More texts that are valid JSON: a result without its time series, an empty
\* object, a number and null.
NoTimeText == "{\"R1\":{\"v\":[0,5],\"i\":[0,0.0025]}}"
EmptyObjectText == "{}"
NumberText == "5"
NullText == "null"

JsonNull == [kind |-> "null", members |-> {}]
JsonNumber == [kind |-> "number", members |-> {}]
JsonObject(members) == [kind |-> "object", members |-> members]

\* JSON.parse(text): the value, or ok = FALSE when it throws.
JSONParse(text) ==
    CASE text = ResultText ->
           [ok |-> TRUE,
            value |-> JsonObject({<<"time", "[0,0.01]">>,
                                  <<"R1", "{\"v\":[0,5],\"i\":[0,0.0025]}">>})]
      [] text = RejectionText ->
           [ok |-> TRUE, value |-> JsonObject({<<"error", "singular matrix">>})]
      [] text = NoTimeText ->
           [ok |-> TRUE, value |-> JsonObject({<<"R1", "{\"v\":[0,5],\"i\":[0,0.0025]}">>})]
      [] text = EmptyObjectText -> [ok |-> TRUE, value |-> JsonObject({})]
      [] text = NumberText -> [ok |-> TRUE, value |-> JsonNumber]
      [] text = NullText -> [ok |-> TRUE, value |-> JsonNull]
      [] OTHER -> [ok |-> FALSE, value |-> JsonNull]

\* value[key], of an object; undefined for a key it lacks and for a number
Member(value, key) ==
    IF \E m \in value.members : m[1] = key
    THEN (CHOOSE m \in value.members : m[1] = key)[2]
    ELSE Undefined

NoResponse ==
    [status |-> 0, kind |-> "none", message |-> Undefined, details |-> Undefined,
     value |-> JsonNull]

\* res.status(status).json({ error: { message, details } })
ErrorResponse(status, message, details) ==
    [status |-> status, kind |-> "error", message |-> message, details |-> details,
     value |-> JsonNull]

\* res.json(value)
PayloadResponse(value) ==
    [status |-> 200, kind |-> "payload", message |-> Undefined, details |-> Undefined,
     value |-> value]

ExitCodes == {0, 1}

\* Variant: a run that wrote to stderr is a failed run.
TranscodeStderrFirst(code, output, errorOutput) ==
    IF code # 0 \/ errorOutput # ""
    THEN ErrorResponse(500, "Simulation engine failed", errorOutput)
    ELSE LET parsed == JSONParse(output)
         IN  IF parsed.ok THEN PayloadResponse(parsed.value)
             ELSE ErrorResponse(500, "Failed to parse results", Undefined)

\* Variant: every failed run is an engine failure.
TranscodeGeneric(code, output, errorOutput) ==
    IF code # 0
    THEN ErrorResponse(500, "Simulation engine failed", errorOutput)
    ELSE LET parsed == JSONParse(output)
         IN  IF parsed.ok THEN PayloadResponse(parsed.value)
             ELSE ErrorResponse(500, "Failed to parse results", Undefined)

\* Variant: a value without a time series is a parse failure.
TranscodeValidating(code, output, errorOutput) ==
    IF code # 0
    THEN LET errObj == JSONParse(errorOutput)
         IN  IF errObj.ok /\ errObj.value.kind # "null"
             THEN ErrorResponse(400, Member(errObj.value, "error"), Undefined)
             ELSE ErrorResponse(500, "Simulation engine failed", errorOutput)
    ELSE LET parsed == JSONParse(output)
         IN  IF parsed.ok /\ Member(parsed.value, "time") # Undefined
             THEN PayloadResponse(parsed.value)
             ELSE ErrorResponse(500, "Failed to parse results", Undefined)

\* Variant: the text of stderr is the message of an engine failure.
TranscodeRawMessage(code, output, errorOutput) ==
    IF code # 0
    THEN LET errObj == JSONParse(errorOutput)
         IN  IF errObj.ok /\ errObj.value.kind # "null"
             THEN ErrorResponse(400, Member(errObj.value, "error"), Undefined)
             ELSE ErrorResponse(500, errorOutput, Undefined)
    ELSE LET parsed == JSONParse(output)
         IN  IF parsed.ok THEN PayloadResponse(parsed.value)
             ELSE ErrorResponse(500, "Failed to parse results", Undefined)

\* Lines 244-252: the response of the 'close' listener.
Transcode(code, output, errorOutput) ==
    IF code # 0
    THEN LET errObj == JSONParse(errorOutput)
         IN  IF errObj.ok /\ errObj.value.kind # "null"
             THEN ErrorResponse(400, Member(errObj.value, "error"), Undefined)
             ELSE ErrorResponse(500, "Simulation engine failed", errorOutput)
    ELSE LET parsed == JSONParse(output)
         IN  IF parsed.ok THEN PayloadResponse(parsed.value)
             ELSE ErrorResponse(500, "Failed to parse results", Undefined)

\* The graphs of the requests.
GraphNoNodes ==
    Graph(TRUE, << >>, TRUE,
          <<[from |-> Origin, to |-> Below, component |-> "resistor",
             value |-> NumberValue(2000000)]>>)
GraphNoEdges == Graph(TRUE, <<Origin, Below>>, FALSE, << >>)
GraphR ==
    Graph(TRUE, <<Origin, Below>>, TRUE,
          <<[from |-> Origin, to |-> Below, component |-> "resistor",
             value |-> NumberValue(2000000)]>>)
GraphC ==
    Graph(TRUE, <<Origin, Below>>, TRUE,
          <<[from |-> Origin, to |-> Below, component |-> "capacitor",
             value |-> StringValue("4.7k")]>>)
\* Every edge is skipped: one of an unknown kind, one with an end that is no node.
GraphSkipped ==
    Graph(TRUE, <<Origin, Below>>, TRUE,
          <<[from |-> Origin, to |-> Below, component |-> "diode",
             value |-> NumberValue(2000000)],
            [from |-> Origin, to |-> Aside, component |-> "resistor",
             value |-> NumberValue(2000000)]>>)
RouteGraphs == {GraphNoNodes, GraphNoEdges, GraphR, GraphC, GraphSkipped}

\* One edge whose kind is a key of Object.prototype.
GraphPrototype ==
    Graph(TRUE, <<Origin, Below>>, TRUE,
          <<[from |-> Origin, to |-> Below, component |-> "constructor",
             value |-> NumberValue(2000000)]>>)

\* The synchronous call of the handler that throws, if one does.
Faults == {"none", "mkdirSync", "writeFileSync", "spawn"}

\* e.message of the error a call throws.
ErrorMessage(fault) == fault \o " failed"

\* What a request brings and what its handler meets.
Input(token, graph, simulationTime, fault) ==
    [token |-> token, graph |-> graph, simulationTime |-> simulationTime, fault |-> fault]

NoInput == Input(NoCookie, GraphNoEdges, Absent, "none")

\* The identity the durations and the faults are tried with.
ProbeId == "64a1f0"

\* A request without a valid cookie; every graph for every identity; every
\* duration and every fault with one graph and one identity; the graph with
\* the prototype key with one identity.
RequestInputs ==
    {Input(t, GraphR, Absent, "none") : t \in {NoCookie, Forged}}
    \cup {Input(TokenOf(id), g, Absent, "none") : id \in Ids, g \in RouteGraphs}
    \cup {Input(TokenOf(ProbeId), GraphR, st, "none") : st \in SimulationTimes}
    \cup {Input(TokenOf(ProbeId), GraphR, Absent, f) : f \in Faults}
    \cup {Input(TokenOf(ProbeId), GraphPrototype, Absent, "none")}

\* What the 'close' listener is given: every exit code with every pair of
\* texts, and a removal that throws.
CloseInput(code, output, errorOutput, rmThrows) ==
    [code |-> code, output |-> output, errorOutput |-> errorOutput, rmThrows |-> rmThrows]

CloseInputs ==
    {CloseInput(c, o, e, FALSE) : c \in ExitCodes, o \in Texts, e \in Texts}
    \cup {CloseInput(c, ResultText, RejectionText, TRUE) : c \in ExitCodes}
    \cup {CloseInput(1, "", e, FALSE) : e \in {EmptyObjectText, NumberText, NullText}}
    \cup {CloseInput(0, o, "", FALSE) : o \in {EmptyObjectText, NoTimeText}}

\* Variant: a removal that throws fails the request.
CloseResponseUnlessThrown(in) ==
    IF in.rmThrows THEN ErrorResponse(500, ErrorMessage("rmSync"), Undefined)
    ELSE Transcode(in.code, in.output, in.errorOutput)

\* Lines 243-252: the response of the listener; the try of line 243 has an
\* empty catch.
CloseResponse(in) == Transcode(in.code, in.output, in.errorOutput)

\* Variant: the failure branch does not return and line 252 answers again.
CloseAnswersFallThrough(code) == IF code # 0 THEN 2 ELSE 1

\* Lines 244-252: the number of responses the listener sends.
CloseAnswers(code) == 1

\* !netlist
NoNetlist(result) == result.null

\* The last handler that ran: history for the properties.
NoEvent ==
    [request |-> 0, handler |-> "none", input |-> NoInput, args |-> << >>,
     code |-> 0, output |-> "", errorOutput |-> "", removed |-> FALSE,
     response |-> NoResponse]

\* No request has arrived.
RouteIdle ==
    /\ rpc = [r \in Requests |-> "new"]
    /\ user = [r \in Requests |-> ""]
    /\ steps = [r \in Requests |-> << >>]
    /\ closes = [r \in Requests |-> 0]
    /\ answers = [r \in Requests |-> 0]
    /\ dirs = {}
    /\ files = << >>
    /\ event = NoEvent

Init ==
    /\ RouteIdle
    /\ UiIdle
    /\ graphData \in Graphs
    /\ pc = "start"
    /\ groundId = ""
    /\ nodeMap = EmptyMap
    /\ nodeCounter = 1
    /\ ni = 0
    /\ counts = ZeroCounts
    /\ netlist = << >>
    /\ ei = 0
    /\ names = << >>
    /\ emitted = << >>
    /\ returned = << >>
    /\ finished = << >>

\* Variant: the counters live outside the function and survive a call.
KeptCounts == counts

\* The locals as declared by a call (lines 85, 86, 96, 97).
NewNodeMap == EmptyMap
NewNodeCounter == 1
NewCounts == ZeroCounts
NewNetlist == <<Header>>

\* Lines 75-76: the graph is rejected.
Reject ==
    /\ pc = "start"
    /\ Rejects(graphData)
    /\ returned' = Append(returned, NullResult)
    /\ finished' = Append(finished, [ground |-> Undefined, labels |-> EmptyMap, names |-> << >>])
    /\ pc' = "done"
    /\ UNCHANGED <<graphData, groundId, nodeMap, nodeCounter, ni, counts, netlist,
                   ei, names, emitted>>
    /\ UNCHANGED routeVars
    /\ UNCHANGED uiVars

\* Lines 75-86, 92-97: the graph is accepted, the ground chosen, the locals declared.
Enter ==
    /\ pc = "start"
    /\ ~Rejects(graphData)
    /\ groundId' = Key(GroundNode(nodes))
    /\ nodeMap' = NewNodeMap
    /\ nodeCounter' = NewNodeCounter
    /\ ni' = 0
    /\ counts' = NewCounts
    /\ netlist' = NewNetlist
    /\ ei' = 0
    /\ names' = << >>
    /\ emitted' = << >>
    /\ pc' = "naming"
    /\ UNCHANGED <<graphData, returned, finished>>
    /\ UNCHANGED routeVars
    /\ UNCHANGED uiVars

\* Lines 87-90: one iteration of nodes.forEach.
NameNode ==
    /\ pc = "naming"
    /\ ni < Len(nodes)
    /\ LET id == Key(nodes[ni + 1])
       IN  /\ nodeMap' = MapSet(nodeMap, id, NodeLabel(id, groundId, nodeCounter))
           /\ nodeCounter' = CounterAfter(id, groundId, nodeCounter)
    /\ ni' = ni + 1
    /\ UNCHANGED <<graphData, pc, groundId, counts, netlist, ei, names, emitted,
                   returned, finished>>
    /\ UNCHANGED routeVars
    /\ UNCHANGED uiVars

\* nodes.forEach is over.
NamingDone ==
    /\ pc = "naming"
    /\ ni = Len(nodes)
    /\ pc' = "edges"
    /\ UNCHANGED <<graphData, groundId, nodeMap, nodeCounter, ni, counts, netlist,
                   ei, names, emitted, returned, finished>>
    /\ UNCHANGED routeVars
    /\ UNCHANGED uiVars

\* Lines 98-109: one iteration of edges.forEach.
ProcessEdge ==
    /\ pc = "edges"
    /\ ei < Len(edges)
    /\ LET e == edges[ei + 1]
           type == TypeOf(e.component)
       IN  IF Falsy(type)
           THEN /\ names' = Append(names, "")
                /\ emitted' = Append(emitted, FALSE)
                /\ UNCHANGED <<counts, netlist>>
           ELSE LET after == PreIncrement(counts, type)
                    name == type \o CountToString(after[type])
                    n1 == MapGet(nodeMap, Key(e.from))
                    n2 == MapGet(nodeMap, Key(e.to))
                    val == ValueOf(e)
                    both == BothDefined(n1, n2)
                IN  /\ counts' = after
                    /\ names' = Append(names, name)
                    /\ emitted' = Append(emitted, both)
                    /\ netlist' =
                         IF both THEN Append(netlist, <<name, n1, n2, ValueToString(val)>>)
                         ELSE netlist
    /\ ei' = ei + 1
    /\ UNCHANGED <<graphData, pc, groundId, nodeMap, nodeCounter, ni, returned, finished>>
    /\ UNCHANGED routeVars
    /\ UNCHANGED uiVars

\* Line 110: return netlist.
Return ==
    /\ pc = "edges"
    /\ ei = Len(edges)
    /\ returned' = Append(returned, TextResult(netlist))
    /\ finished' = Append(finished, [ground |-> groundId, labels |-> nodeMap, names |-> names])
    /\ pc' = "done"
    /\ UNCHANGED <<graphData, groundId, nodeMap, nodeCounter, ni, counts, netlist,
                   ei, names, emitted>>
    /\ UNCHANGED routeVars
    /\ UNCHANGED uiVars

\* The function is called again with the same graph (line 224, once per request).
CallAgain ==
    /\ pc = "done"
    /\ Len(returned) < MaxCalls
    /\ pc' = "start"
    /\ UNCHANGED <<graphData, groundId, nodeMap, nodeCounter, ni, counts, netlist,
                   ei, names, emitted, returned, finished>>
    /\ UNCHANGED routeVars
    /\ UNCHANGED uiVars

Next ==
    \/ Reject
    \/ Enter
    \/ NameNode
    \/ NamingDone
    \/ ProcessEdge
    \/ Return
    \/ CallAgain

Spec == Init /\ [][Next]_vars

(***************************************************************************)
(* The steps of the solve route.                                           *)
(***************************************************************************)
\* Lines 62-71: the response of verifyToken, none when it calls next().
VerifyToken(token) ==
    IF ~token.present THEN ErrorResponse(401, "Not authenticated", Undefined)
    ELSE IF ~token.signed THEN ErrorResponse(401, "Invalid token", Undefined)
    ELSE NoResponse

\* The steps the handler logs for what it did (history).
HandlerSteps(rejected, opened, written, spawned) ==
    <<"compile">>
    \o (IF opened THEN <<"open">> ELSE << >>)
    \o (IF written THEN <<"write">> ELSE << >>)
    \o (IF spawned THEN <<"spawn">> ELSE << >>)

\* Variant: the workspace is opened before the netlist is looked at.
OpensAlways(rejected, threw) == threw # "mkdirSync"

\* Lines 225-229: the workspace exists once the handler is past line 229.
Opens(rejected, threw) == ~rejected /\ threw # "mkdirSync"

\* Variant: the response is made before the workspace is removed.
CloseStepsTranscodeFirst == <<"transcode", "close">>

\* Line 243, then lines 244-252.
CloseSteps == <<"close", "transcode">>

\* Lines 221-241 and 255-258: verifyToken and the route handler, up to the
\* registration of the listeners or to the response that ends the request.
\* The requests are numbered in the order in which their handlers run.
SolveCircuit(r) ==
    /\ rpc[r] = "new"
    /\ \A q \in Requests : q < r => rpc[q] # "new"
    /\ \E in \in RequestInputs :
         LET denied == VerifyToken(in.token)
             result == convertGraphToNetlist(in.graph)
             rejected == NoNetlist(result)
             t_end == DurationOf(in.simulationTime)
             tempDir == TempDir(in.token.id)
             netFile == NetFile(tempDir)
             threw == IF in.fault = "mkdirSync" /\ ExistsSync(dirs, tempDir)
                      THEN "none" ELSE in.fault
             opened == Opens(rejected, threw)
             written == opened /\ threw # "writeFileSync"
             spawned == written /\ threw # "spawn"
             args == <<SolverScript, netFile, DurationToString(t_end)>>
             response ==
                 IF rejected
                 THEN ErrorResponse(400, "Empty circuit or invalid data", Undefined)
                 ELSE IF ~spawned THEN ErrorResponse(500, ErrorMessage(threw), Undefined)
                 ELSE NoResponse
         IN  IF denied # NoResponse
             THEN /\ rpc' = [rpc EXCEPT ![r] = "done"]
                  /\ answers' = [answers EXCEPT ![r] = @ + 1]
                  /\ event' = [NoEvent EXCEPT !.request = r, !.handler = "verifyToken",
                                              !.input = in, !.response = denied]
                  /\ UNCHANGED <<user, steps, dirs, files>>
             ELSE /\ user' = [user EXCEPT ![r] = in.token.id]
                  /\ dirs' = IF opened THEN MkdirSync(dirs, tempDir) ELSE dirs
                  /\ files' =
                       IF written
                       THEN WriteFileSync(files, netFile, [content |-> result.text, writer |-> r])
                       ELSE files
                  /\ steps' = [steps EXCEPT ![r] = HandlerSteps(rejected, opened, written, spawned)]
                  /\ rpc' = [rpc EXCEPT ![r] = IF spawned THEN "running" ELSE "done"]
                  /\ answers' = [answers EXCEPT ![r] = IF spawned THEN @ ELSE @ + 1]
                  /\ event' = [NoEvent EXCEPT !.request = r, !.handler = "solve",
                                              !.input = in,
                                              !.args = IF spawned THEN args ELSE << >>,
                                              !.response = response]
    /\ UNCHANGED <<closes>>
    /\ UNCHANGED compilerVars
    /\ UNCHANGED uiVars

\* The solver process of the request terminates and its streams end.
SolverExit(r) ==
    /\ rpc[r] = "running"
    /\ rpc' = [rpc EXCEPT ![r] = "exited"]
    /\ steps' = [steps EXCEPT ![r] = Append(@, "terminated")]
    /\ UNCHANGED <<user, closes, answers, dirs, files, event>>
    /\ UNCHANGED compilerVars
    /\ UNCHANGED uiVars

\* Variant: the listener runs while the solver is running.
CloseDeliveredEarly(r) == rpc[r] \in {"running", "exited"}

\* Line 242: 'close' is emitted once the process has ended and its streams
\* are closed.
CloseDelivered(r) == rpc[r] = "exited"

\* Lines 242-253: the 'close' listener, given the exit code and the texts the
\* 'data' listeners (lines 239-240) gathered; rmSync may throw (line 243).
OnClose(r) ==
    /\ CloseDelivered(r)
    /\ \E in \in CloseInputs :
         LET tempDir == TempDir(user[r])
         IN  /\ dirs' = IF in.rmThrows THEN dirs ELSE RmSyncDirs(dirs, tempDir)
             /\ files' = IF in.rmThrows THEN files ELSE RmSyncFiles(files, tempDir)
             /\ event' = [NoEvent EXCEPT !.request = r, !.handler = "close",
                                         !.code = in.code, !.output = in.output,
                                         !.errorOutput = in.errorOutput,
                                         !.removed = ~in.rmThrows,
                                         !.response = CloseResponse(in)]
             /\ answers' = [answers EXCEPT ![r] = @ + CloseAnswers(in.code)]
    /\ closes' = [closes EXCEPT ![r] = @ + 1]
    /\ steps' = [steps EXCEPT ![r] = @ \o CloseSteps]
    /\ rpc' = [rpc EXCEPT ![r] = "done"]
    /\ UNCHANGED user
    /\ UNCHANGED compilerVars
    /\ UNCHANGED uiVars

\* No call of convertGraphToNetlist is being stepped through.
CompilerIdle ==
    /\ graphData = Graph(FALSE, << >>, FALSE, << >>)
    /\ pc = "idle"
    /\ groundId = ""
    /\ nodeMap = EmptyMap
    /\ nodeCounter = 1
    /\ ni = 0
    /\ counts = ZeroCounts
    /\ netlist = << >>
    /\ ei = 0
    /\ names = << >>
    /\ emitted = << >>
    /\ returned = << >>
    /\ finished = << >>

InitRoute == CompilerIdle /\ RouteIdle /\ UiIdle

NextRoute ==
    \/ \E r \in Requests : SolveCircuit(r)
    \/ \E r \in Requests : SolverExit(r)
    \/ \E r \in Requests : OnClose(r)

SpecRoute == InitRoute /\ [][NextRoute]_vars

(***************************************************************************)
(* The client, src/Website/src/App.jsx: the names it shows for the         *)
(* components (getComponentName) and the simulation time of handleSolve.   *)
(*                                                                         *)
(* A time is a fraction [num, den]: the divisions by 1000 and by 1e6 are   *)
(* kept exact.                                                             *)
(***************************************************************************)
MaxTime == 8

\* edges: lines.map(l => ({ from, to, component, value })) (handleSolve), and
\* the line an edge comes from.
EdgeOfLine(l) ==
    [from |-> [x |-> l.x1, y |-> l.y1], to |-> [x |-> l.x2, y |-> l.y2],
     component |-> l.component, value |-> l.value]

UiLine(e) ==
    [x1 |-> e.from.x, y1 |-> e.from.y, x2 |-> e.to.x, y2 |-> e.to.y,
     component |-> e.component, value |-> e.value]

\* Variant: the edges before the index are counted, the edge itself is not.
GetComponentNameBefore(index, lines) ==
    IF index \notin 1..Len(lines) THEN ""
    ELSE LET line == lines[index]
             looked == TypeOf(line.component)
             prefix == IF Falsy(looked) THEN "?" ELSE looked
             count == Cardinality({i \in 1..(index - 1) : lines[i].component = line.component})
         IN  prefix \o NumberToString(count)

\* getComponentName(index, lines); the index counts from 1 here.  Its typeMap
\* is the object literal of the server's.
GetComponentName(index, lines) ==
    IF index \notin 1..Len(lines) THEN ""
    ELSE LET line == lines[index]
             looked == TypeOf(line.component)
             prefix == IF Falsy(looked) THEN "?" ELSE looked
             count == Cardinality({i \in 1..index : lines[i].component = line.component})
         IN  prefix \o NumberToString(count)

\* The units of the selector; the microsecond is written "us".
TimeUnits == {"hr", "min", "s", "ms", "us"}

Fraction(num, den) == [num |-> num, den |-> den]
Times(q, k) == Fraction(q.num * k, q.den)
Over(q, k) == Fraction(q.num, q.den * k)
SameNumber(p, q) == p.num * q.den = q.num * p.den

\* handleSolve: timeInSeconds, from the time entered and its unit.
TimeInSeconds(simulationTime, timeUnit) ==
    LET entered == Fraction(simulationTime, 1)
    IN  CASE timeUnit = "hr" -> Times(entered, 3660)
          [] timeUnit = "min" -> Times(entered, 60)
          [] timeUnit = "ms" -> Over(entered, 1000)
          [] timeUnit = "us" -> Over(entered, 1000000)
          [] OTHER -> entered

\* handleSolve: timeScaler
TimeScaler(timeUnit) ==
    CASE timeUnit = "hr" -> 3600
      [] timeUnit = "min" -> 60
      [] timeUnit = "ms" -> 1000
      [] timeUnit = "us" -> 1000000
      [] OTHER -> 1

\* { time: t * timeScaler }
ChartTime(t, timeUnit) == Times(t, TimeScaler(timeUnit))

UiEditing(timeUnit, simulationTime) ==
    [pc |-> "editing", timeUnit |-> timeUnit, simulationTime |-> simulationTime,
     timeInSeconds |-> Fraction(0, 1), shown |-> Fraction(0, 1)]

\* handleSolve up to the request: the time is converted and sent.
HandleSolve ==
    /\ ui.pc = "editing"
    /\ ui' = [ui EXCEPT !.pc = "sent",
                        !.timeInSeconds = TimeInSeconds(ui.simulationTime, ui.timeUnit)]
    /\ UNCHANGED <<compilerVars, routeVars>>

\* handleSolve after the response: the sample at the end time, which is the
\* time that was sent, is scaled for the chart.
ShowResult ==
    /\ ui.pc = "sent"
    /\ ui' = [ui EXCEPT !.pc = "shown", !.shown = ChartTime(ui.timeInSeconds, ui.timeUnit)]
    /\ UNCHANGED <<compilerVars, routeVars>>

InitUI ==
    /\ CompilerIdle
    /\ RouteIdle
    /\ ui \in {UiEditing(u, n) : u \in TimeUnits, n \in 1..MaxTime}

NextUI == HandleSolve \/ ShowResult

SpecUI == InitUI /\ [][NextUI]_vars

(***************************************************************************)
(* Properties of convertGraphToNetlist.                                    *)
(***************************************************************************)
Range(seq) == {seq[i] : i \in 1..Len(seq)}

LastReturned == returned[Len(returned)]

\* Every order of a list: the list read through a permutation of its indices.
Orders(seq) ==
    LET n == Len(seq)
        bijections == {f \in [1..n -> 1..n] : \A i, j \in 1..n : f[i] = f[j] => i = j}
    IN  {[i \in 1..n |-> seq[f[i]]] : f \in bijections}

\* C1: a call returns null exactly when the node list is absent or empty or the
\* edge list is absent or empty; every other call runs to its return and hands
\* back a netlist text, which starts with the header line.
C1_NullIffEmptyGraph ==
    /\ pc # "done" => ENABLED Next
    /\ pc = "done" =>
         /\ LastReturned.null <=>
              \/ ~graphData.hasNodes
              \/ graphData.nodes = << >>
              \/ ~graphData.hasEdges
              \/ graphData.edges = << >>
         /\ ~LastReturned.null =>
              /\ Len(LastReturned.text) >= 1
              /\ LastReturned.text[1] = Header

\* C1 witness: a call on a graph with nodes and an empty edge list returned null.
C1_Witness ==
    /\ pc = "done"
    /\ graphData.hasNodes /\ Len(graphData.nodes) > 0
    /\ graphData.hasEdges /\ graphData.edges = << >>
    /\ LastReturned.null

\* C2: the ground chosen on entry is a node with the greatest y and, among the
\* nodes with that y, the smallest x, and the reduction picks the same
\* coordinate for every permutation of the node list.
C2_GroundIsLowestLeftmost ==
    (pc = "naming" /\ ni = 0) =>
        /\ \E g \in Range(nodes) :
              /\ Key(g) = groundId
              /\ \A n \in Range(nodes) : n.y <= g.y /\ (n.y = g.y => g.x <= n.x)
        /\ \A p \in Orders(nodes) : Key(GroundNode(p)) = groundId

\* C2 witness: the ground is not the first node and ties on y with a node of
\* greater x that comes before it in the list.
C2_Witness ==
    /\ pc = "naming" /\ ni = 0
    /\ Len(nodes) >= 2
    /\ Key(nodes[1]) # groundId
    /\ \E i, j \in 1..Len(nodes) :
          /\ i < j
          /\ Key(nodes[j]) = groundId
          /\ nodes[i].y = nodes[j].y
          /\ nodes[i].x > nodes[j].x

\* The distinct coordinates of ns[i..] other than the ground, in first-seen
\* order, after those of seen.
RECURSIVE FirstSeenFrom(_, _, _, _)
FirstSeenFrom(ns, i, ground, seen) ==
    IF i > Len(ns) THEN seen
    ELSE LET k == Key(ns[i])
         IN  FirstSeenFrom(ns, i + 1, ground,
                           IF k = ground \/ k \in Range(seen) THEN seen
                           ELSE Append(seen, k))

FirstSeen == FirstSeenFrom(nodes, 1, groundId, << >>)

RankIn(seq, k) == CHOOSE r \in 1..Len(seq) : seq[r] = k

\* C3: after the naming pass the ground coordinate is labelled "0" and every
\* other coordinate "n" followed by its 1-based rank in first-seen order among
\* the non-ground coordinates, for node lists with or without repeated
\* coordinates.
C3_LabelIsFirstSeenRank ==
    pc = "edges" =>
        \A n \in Range(nodes) :
            MapGet(nodeMap, Key(n)) =
                IF Key(n) = groundId THEN "0"
                ELSE "n" \o NumberToString(RankIn(FirstSeen, Key(n)))

\* The index of the last entry of the node list with the coordinate of key k.
LastIndex(k) == CHOOSE i \in 1..Len(nodes) :
                    /\ Key(nodes[i]) = k
                    /\ \A j \in (i + 1)..Len(nodes) : Key(nodes[j]) # k

\* The number of entries among nodes[1..i] that are not the ground.
NonGroundUpTo(i) == Cardinality({j \in 1..i : Key(nodes[j]) # groundId})

\* C3 (amended): after the naming pass the ground coordinate is labelled "0"
\* and every other coordinate "n" followed by the number of non-ground
\* entries of the node list up to and including the last entry with that
\* coordinate; when no coordinate other than the ground is repeated, that
\* number is the first-seen rank of the coordinate among the non-ground
\* coordinates.
C3_LabelIsLastEntryCount ==
    pc = "edges" =>
        /\ \A n \in Range(nodes) :
              MapGet(nodeMap, Key(n)) =
                  IF Key(n) = groundId THEN "0"
                  ELSE "n" \o NumberToString(NonGroundUpTo(LastIndex(Key(n))))
        /\ (\A i, j \in 1..Len(nodes) :
               (i # j /\ nodes[i] = nodes[j]) => Key(nodes[i]) = groundId)
           => \A n \in Range(nodes) :
                 Key(n) # groundId =>
                     nodeMap[Key(n)] = "n" \o NumberToString(RankIn(FirstSeen, Key(n)))

\* C3 witness: a coordinate other than the ground is listed twice and carries
\* the label n2, although it is the first non-ground coordinate seen.
C3_Witness ==
    /\ pc = "edges"
    /\ Len(nodes) = 3
    /\ nodes[1] = nodes[2]
    /\ Key(nodes[1]) # groundId
    /\ Key(nodes[3]) = groundId
    /\ nodeMap[Key(nodes[1])] = "n2"

\* C4: after the naming pass the map holds exactly the coordinates of the node
\* list, one label each; distinct coordinates have distinct labels, exactly
\* one coordinate has the label "0", and there are as many labels as distinct
\* coordinates, also when the list repeats a coordinate.
C4_OneLabelPerCoordinate ==
    pc = "edges" =>
        LET labels == {nodeMap[k] : k \in DOMAIN nodeMap}
        IN  /\ DOMAIN nodeMap = {Key(n) : n \in Range(nodes)}
            /\ Cardinality(DOMAIN nodeMap) = Cardinality(Range(nodes))
            /\ \A a, b \in DOMAIN nodeMap : a # b => nodeMap[a] # nodeMap[b]
            /\ Cardinality({k \in DOMAIN nodeMap : nodeMap[k] = "0"}) = 1
            /\ Cardinality(labels) = Cardinality(Range(nodes))

\* C4 witness: the naming pass is over for a list that holds a coordinate
\* other than the ground twice.
C4_Witness ==
    /\ pc = "edges"
    /\ \E i, j \in 1..Len(nodes) :
          i < j /\ nodes[i] = nodes[j] /\ Key(nodes[i]) # groundId

\* The six recognized kinds and the number of edges of the kind of edge i
\* among the edges 1..i.
Recognized == DOMAIN typeMap

Occurrences(i) == Cardinality({j \in 1..i : edges[j].component = edges[i].component})

\* C5: the six counters start at 0; the i-th visited edge, when its kind is
\* recognized, is named by the prefix of its kind and the number of edges of
\* that kind visited so far, and each counter equals the number of visited
\* edges of its kind (so no kind changes the numbering of another).
C5_NamedByOwnCounter ==
    /\ (pc = "naming" \/ (pc = "edges" /\ ei = 0)) =>
          \A k \in Recognized : counts[typeMap[k]] = 0
    /\ (pc = "edges" \/ (pc = "done" /\ ~LastReturned.null)) =>
          /\ \A i \in 1..ei :
                edges[i].component \in Recognized =>
                    names[i] = typeMap[edges[i].component] \o NumberToString(Occurrences(i))
          /\ \A k \in Recognized :
                counts[typeMap[k]] = Cardinality({j \in 1..ei : edges[j].component = k})

\* C5 witness: two edges of two recognized kinds were visited and each got
\* the number 1.
C5_Witness ==
    /\ pc = "edges"
    /\ ei = 2
    /\ edges[1].component = "resistor"
    /\ edges[2].component = "capacitor"
    /\ names = <<"R1", "C1">>

\* The line of the netlist that the visited edge i appended.
LineOf(i) == netlist[1 + Cardinality({j \in 1..i : emitted[j]})]

\* C6: the value field of the line of a wire is 1e-6 (written 0.000001 by the
\* template literal) whatever value the edge stores, and the value field of
\* the line of any other edge is the text of its stored value.
C6_WireValueOverride ==
    (pc = "edges" \/ (pc = "done" /\ ~LastReturned.null)) =>
        \A i \in 1..ei :
            emitted[i] =>
                LineOf(i)[4] = IF edges[i].component = "wire" THEN "0.000001"
                               ELSE ValueToString(edges[i].value)

\* C6 witness: a wire that stores the value 2 and a resistor that stores 2
\* both appended a line.
C6_Witness ==
    /\ pc = "done"
    /\ ei = 2
    /\ emitted = <<TRUE, TRUE>>
    /\ edges[1].component = "wire"
    /\ edges[1].value = NumberValue(2000000)
    /\ edges[2].component = "resistor"
    /\ edges[2].value = NumberValue(2000000)
    /\ netlist[2][4] = "0.000001"
    /\ netlist[3][4] = "2"

\* C7: a visited edge whose kind is not one of the six recognized kinds
\* appends no line and gets no name, and each of the six counters equals the
\* number of visited edges of its own kind.
C7_UnrecognizedKindSkipped ==
    (pc = "edges" \/ (pc = "done" /\ ~LastReturned.null)) =>
        /\ \A i \in 1..ei :
              edges[i].component \notin Recognized => (~emitted[i] /\ names[i] = "")
        /\ \A k \in Recognized :
              counts[typeMap[k]] = Cardinality({j \in 1..ei : edges[j].component = k})

\* An endpoint of edge i is a coordinate that the node list does not hold.
Orphan(i) ==
    \/ edges[i].from \notin Range(nodes)
    \/ edges[i].to \notin Range(nodes)

\* C8: a visited orphan edge of a recognized kind appends no line but takes a
\* number of its kind: its counter counts it, and every later edge of a
\* recognized kind that appends a line is numbered by the edges of its own
\* kind visited so far, the orphan included for its own kind and for no
\* other.
C8_OrphanConsumesNumber ==
    (pc = "edges" \/ (pc = "done" /\ ~LastReturned.null)) =>
        \A i \in 1..ei :
            (edges[i].component \in Recognized /\ Orphan(i)) =>
                /\ ~emitted[i]
                /\ counts[typeMap[edges[i].component]] >= Occurrences(i)
                /\ \A j \in (i + 1)..ei :
                      (edges[j].component \in Recognized /\ emitted[j]) =>
                          LineOf(j)[1] =
                              typeMap[edges[j].component] \o NumberToString(Occurrences(j))

\* C8 witness: an orphan resistor, then a resistor between two listed nodes,
\* which is the only line of the netlist and is named R2.
C8_Witness ==
    /\ pc = "done"
    /\ ei = 2
    /\ edges[1].component = "resistor" /\ Orphan(1)
    /\ edges[2].component = "resistor" /\ ~Orphan(2)
    /\ Len(netlist) = 2
    /\ netlist[2][1] = "R2"

\* An edge survives when its kind is recognized and both endpoints are listed.
Survives(i) == edges[i].component \in Recognized /\ ~Orphan(i)

\* The line the claim gives edge i: name, from-label, to-label, value.
ClaimedLine(i) ==
    <<names[i], nodeMap[Key(edges[i].from)], nodeMap[Key(edges[i].to)],
      IF edges[i].component = "wire" THEN "0.000001" ELSE ValueToString(edges[i].value)>>

RECURSIVE ClaimedLinesFrom(_)
ClaimedLinesFrom(i) ==
    IF i > Len(edges) THEN << >>
    ELSE (IF Survives(i) THEN <<ClaimedLine(i)>> ELSE << >>) \o ClaimedLinesFrom(i + 1)

\* C9: a returned netlist is the header line followed by exactly one line per
\* surviving edge, in the order of the edge list, each line made of the name,
\* the from-label, the to-label and the value.
C9_HeaderThenSurvivingEdges ==
    (pc = "done" /\ ~LastReturned.null) =>
        LastReturned.text = <<Header>> \o ClaimedLinesFrom(1)

\* C10: every call on the same graph returns the same value and ends with the
\* same ground, node labels and component names as the calls before it.
C10_SameResultEveryCall ==
    \A i, j \in 1..Len(returned) :
        returned[i] = returned[j] /\ finished[i] = finished[j]

\* C10 witness: a second call has returned a netlist of three lines or more.
C10_Witness ==
    /\ pc = "done"
    /\ Len(returned) = 2
    /\ ~returned[2].null
    /\ Len(returned[2].text) >= 3

(***************************************************************************)
(* Properties of the solve route.                                          *)
(***************************************************************************)
EmptyCircuit == ErrorResponse(400, "Empty circuit or invalid data", Undefined)

EmptyGraph(g) == ~g.hasNodes \/ Len(g.nodes) = 0 \/ ~g.hasEdges \/ Len(g.edges) = 0

InFlight(r) == rpc[r] \in {"running", "exited"}

\* The handler of request r has just run on an authenticated request.
Solved(r) == event'.handler = "solve" /\ event'.request = r /\ rpc[r] = "new" /\ rpc'[r] # "new"

\* C11: a request whose graph has no nodes or no edges is answered 400 "Empty
\* circuit or invalid data", and its handler creates no directory, writes no
\* file and spawns no solver.
C11_EmptyGraphRejected ==
    [][\A r \in Requests :
         Solved(r) /\ EmptyGraph(event'.input.graph) =>
            /\ event'.response = EmptyCircuit
            /\ rpc'[r] = "done"
            /\ answers'[r] = 1
            /\ dirs' = dirs
            /\ files' = files
            /\ event'.args = << >>
            /\ steps'[r] = <<"compile">>]_vars

C11_Witness ==
    /\ event.handler = "solve"
    /\ EmptyGraph(event.input.graph)
    /\ event.response.status = 400
    /\ rpc[event.request] = "done"
    /\ \E q \in Requests : InFlight(q) /\ user[q] = user[event.request]

\* The 'close' listener has just run.
Closed == event.handler = "close"

ParseFailure == ErrorResponse(500, "Failed to parse results", Undefined)

\* C12: when the solver exits with code 0 the response is decided by stdout
\* alone: the parsed value as the success payload when stdout parses as JSON,
\* else 500 "Failed to parse results" carrying nothing of stdout; stderr plays
\* no part.
C12_ExitZeroDecidedByStdout ==
    Closed /\ event.code = 0 =>
        LET parsed == JSONParse(event.output)
        IN  /\ parsed.ok =>
                 /\ event.response.status = 200
                 /\ event.response.kind = "payload"
                 /\ event.response.value = parsed.value
            /\ ~parsed.ok =>
                 /\ event.response = ParseFailure
                 /\ event.response.message # event.output
                 /\ event.response.details # event.output

C12_Witness ==
    /\ Closed
    /\ event.code = 0
    /\ event.errorOutput = RejectionText
    /\ \/ event.output = ResultText /\ event.response.status = 200
       \/ event.output = "not json" /\ event.response.status = 500

\* C13: when the solver exits with a nonzero code and stderr is a JSON object
\* with a field error, the response is 400 with that message, not the engine
\* failure, and nothing of stdout is returned.
C13_SolverRejectionVerbatim ==
    Closed /\ event.code # 0 /\ JSONParse(event.errorOutput).ok
           /\ (\E m \in JSONParse(event.errorOutput).value.members : m[1] = "error") =>
        /\ event.response.status = 400
        /\ event.response.kind = "error"
        /\ \E m \in JSONParse(event.errorOutput).value.members :
              m[1] = "error" /\ event.response.message = m[2]
        /\ event.response.message # "Simulation engine failed"
        /\ event.response.details = Undefined
        /\ event.response.value = JsonNull

C13_Witness ==
    /\ Closed
    /\ event.code = 1
    /\ event.errorOutput = RejectionText
    /\ event.output = ResultText
    /\ event.response.message = "singular matrix"

\* C14: when the solver exits with a nonzero code and stderr is not valid JSON,
\* the response is 500 "Simulation engine failed" and the text of stderr is in
\* the details field only.
C14_EngineFailureDetails ==
    Closed /\ event.code # 0 /\ ~JSONParse(event.errorOutput).ok =>
        /\ event.response.status = 500
        /\ event.response.kind = "error"
        /\ event.response.message = "Simulation engine failed"
        /\ event.response.details = event.errorOutput
        /\ event.response.value = JsonNull

C14_Witness ==
    /\ Closed
    /\ event.code = 1
    /\ event.errorOutput = "not json"
    /\ event.response.details = "not json"
    /\ event.response.status = 500

\* The request got past line 229: its workspace directory was there.
OpenedWorkspace(r) == \E i \in 1..Len(steps[r]) : steps[r][i] = "open"

Finished(r) == rpc[r] = "done" /\ answers[r] > 0

\* C15: once a call that created its workspace has sent its response, and no
\* other call of the same identity is in flight, the artifact of that identity
\* does not exist.
C15_ArtifactGoneAfterCall ==
    \A r \in Requests :
        /\ Finished(r)
        /\ OpenedWorkspace(r)
        /\ \A q \in Requests : user[q] = user[r] => ~InFlight(q)
        => NetFile(TempDir(user[r])) \notin DOMAIN files

\* The position of a step in the log of a request, 0 when it is not there.
StepAt(r, step) ==
    IF \E i \in 1..Len(steps[r]) : steps[r][i] = step
    THEN CHOOSE i \in 1..Len(steps[r]) : steps[r][i] = step
    ELSE 0

\* C16: a call that opened a workspace invokes the removal exactly once, and
\* after its solver has terminated.
C16_ClosedOnceAfterExit ==
    \A r \in Requests :
        /\ closes[r] <= 1
        /\ closes[r] = 1 => 0 < StepAt(r, "terminated") /\ StepAt(r, "terminated") < StepAt(r, "close")
        /\ Finished(r) /\ OpenedWorkspace(r) => closes[r] = 1

IsPrefix(s, t) == Len(s) <= Len(t) /\ SubSeq(t, 1, Len(s)) = s

\* C17 as stated: the steps of a request come in the order compile, open,
\* write, spawn, termination, transcode, close.
C17_TranscodeThenClose ==
    \A r \in Requests :
        IsPrefix(steps[r],
                 <<"compile", "open", "write", "spawn", "terminated", "transcode", "close">>)

\* C17: the steps of a request come in the order compile, open, write, spawn,
\* termination, close, transcode: the workspace is removed before the output of
\* the solver is turned into the response.
C17_CloseThenTranscode ==
    \A r \in Requests :
        IsPrefix(steps[r],
                 <<"compile", "open", "write", "spawn", "terminated", "close", "transcode">>)

C17_Witness ==
    \E r \in Requests :
        /\ steps[r] = <<"compile", "open", "write", "spawn", "terminated", "close", "transcode">>
        /\ Finished(r)
        /\ closes[r] = 1

\* The identity whose request wrote the file at a path.
OwnerOf(path) == user[files[path].writer]

\* C18: requests of different identities have different workspace directories
\* and artifact paths, neither inside the other, and a handler of a request
\* leaves every artifact of another identity as it was: it neither writes nor
\* removes it, and the path it hands to its solver is its own identity's.
C18_IdentitiesIsolated ==
    [][/\ \A i, j \in Ids :
             i # j =>
                /\ TempDir(i) # TempDir(j)
                /\ NetFile(TempDir(i)) # NetFile(TempDir(j))
                /\ ~IsUnder(NetFile(TempDir(i)), TempDir(j))
       /\ \A r \in Requests :
             event'.request = r /\ rpc'[r] # rpc[r] =>
                /\ \A p \in DOMAIN files :
                      OwnerOf(p) # user'[r] => p \in DOMAIN files' /\ files'[p] = files[p]
                /\ \A p \in DOMAIN files' :
                      p \notin DOMAIN files \/ files'[p] # files[p] =>
                         files'[p].writer = r /\ p = NetFile(TempDir(user'[r]))
                /\ event'.args # << >> => event'.args[2] = NetFile(TempDir(user'[r]))]_vars

C18_Witness ==
    \E r, q \in Requests :
        /\ user[r] # user[q]
        /\ rpc[r] = "done" /\ closes[r] = 1
        /\ InFlight(q)
        /\ NetFile(TempDir(user[q])) \in DOMAIN files
        /\ files[NetFile(TempDir(user[q]))].writer = q

\* C19: requests of one identity have one workspace directory and one artifact
\* path, and the write of a request replaces whatever is at that path: after
\* the handler has spawned its solver the artifact is the one it wrote.
C19_SameIdentitySharesArtifact ==
    /\ \A r, q \in Requests :
          user[r] = user[q] /\ user[r] # "" =>
             /\ TempDir(user[r]) = TempDir(user[q])
             /\ NetFile(TempDir(user[r])) = NetFile(TempDir(user[q]))
    /\ event.handler = "solve" /\ event.args # << >> =>
          LET r == event.request
              netFile == NetFile(TempDir(user[r]))
          IN  /\ netFile \in DOMAIN files
              /\ files[netFile].writer = r
              /\ files[netFile].content = convertGraphToNetlist(event.input.graph).text

\* The second request replaced the artifact the first one wrote, while the
\* solver of the first is still running.
C19_Witness ==
    \E r, q \in Requests :
        /\ r # q
        /\ user[r] = user[q]
        /\ rpc[r] = "running"
        /\ StepAt(r, "write") > 0
        /\ event.handler = "solve" /\ event.request = q /\ event.args # << >>
        /\ event.input.graph = GraphC
        /\ files[NetFile(TempDir(user[r]))].writer = q
        /\ files[NetFile(TempDir(user[r]))].content # convertGraphToNetlist(GraphR).text

\* C20: the solver is given the script, the path of the artifact the request
\* wrote, and the duration as text: simulationTime when it is present and
\* truthy, 0.01 when it is absent, null, 0 or empty.
C20_DurationDefault ==
    event.handler = "solve" /\ event.args # << >> =>
        LET st == event.input.simulationTime
            r == event.request
        IN  /\ Len(event.args) = 3
            /\ event.args[1] = SolverScript
            /\ event.args[2] \in DOMAIN files
            /\ files[event.args[2]].writer = r
            /\ event.args[3] =
                 IF st \in {Absent, Null, NumberValue(0), StringValue("")} THEN "0.01"
                 ELSE IF st = NumberValue(2500000) THEN "2.5"
                 ELSE st.text

C20_Witness ==
    /\ event.handler = "solve"
    /\ event.input.simulationTime = NumberValue(0)
    /\ event.args # << >>
    /\ event.args[3] = "0.01"
    /\ rpc[event.request] = "running"

\* An edge the compiler is said to skip: its kind is none of the six, or one of
\* its ends is no node of the graph.
SaidSkipped(g, e) ==
    \/ e.component \notin DOMAIN typeMap
    \/ \A i \in 1..Len(g.nodes) : g.nodes[i] # e.from
    \/ \A i \in 1..Len(g.nodes) : g.nodes[i] # e.to

AllSaidSkipped(g) == \A i \in 1..Len(g.edges) : SaidSkipped(g, g.edges[i])

\* C21: exactly the graphs with no nodes or no edges are rejected as empty; a
\* graph with nodes and edges whose edges are all of an unknown kind or orphans
\* gets a workspace, an artifact of the header line alone, and a solver.
C21_HeaderOnlyProceeds ==
    event.handler = "solve" /\ event.input.fault = "none" =>
        LET g == event.input.graph
            r == event.request
        IN  /\ event.response = EmptyCircuit <=> EmptyGraph(g)
            /\ ~EmptyGraph(g) /\ AllSaidSkipped(g) =>
                  /\ OpenedWorkspace(r)
                  /\ StepAt(r, "spawn") > 0
                  /\ InFlight(r)
                  /\ event.args # << >>
                  /\ files[NetFile(TempDir(user[r]))].content = <<Header>>

\* C22: when the solver exits with a nonzero code and stderr is valid JSON
\* without a field error, the response is the engine failure, 500 with the
\* text of stderr as details.
C22_NoErrorFieldIsEngineFailure ==
    Closed /\ event.code # 0 /\ JSONParse(event.errorOutput).ok
           /\ (\A m \in JSONParse(event.errorOutput).value.members : m[1] # "error") =>
        event.response = ErrorResponse(500, "Simulation engine failed", event.errorOutput)

\* The Simulation Result shape, as far as a value is looked into: an object
\* with a time series.
MatchesResultShape(value) ==
    value.kind = "object" /\ \E m \in value.members : m[1] = "time"

\* C23 as stated: a stdout that is valid JSON of another shape is answered
\* with the parse failure.
C23_ShapeMismatchIsParseFailure ==
    Closed /\ event.code = 0 /\ JSONParse(event.output).ok
           /\ ~MatchesResultShape(JSONParse(event.output).value) =>
        event.response = ParseFailure

\* C23: a stdout that is valid JSON is returned as the payload with status 200
\* whatever its shape.
C23_ShapeMismatchIsReturned ==
    Closed /\ event.code = 0 /\ JSONParse(event.output).ok
           /\ ~MatchesResultShape(JSONParse(event.output).value) =>
        /\ event.response.status = 200
        /\ event.response.kind = "payload"
        /\ event.response.value = JSONParse(event.output).value
        /\ event.response.message = Undefined

C23_Witness ==
    /\ Closed
    /\ event.code = 0
    /\ event.output = NoTimeText
    /\ event.response.status = 200
    /\ event.response.value.members # {}

\* What lines 244-252 answer for a code and the two texts.
Answer(code, output, errorOutput) ==
    IF code = 0
    THEN IF JSONParse(output).ok THEN PayloadResponse(JSONParse(output).value)
         ELSE ParseFailure
    ELSE IF JSONParse(errorOutput).ok /\ JSONParse(errorOutput).value.kind # "null"
         THEN ErrorResponse(400, Member(JSONParse(errorOutput).value, "error"), Undefined)
         ELSE ErrorResponse(500, "Simulation engine failed", errorOutput)

\* C24: when the removal of the workspace throws, the request is answered all
\* the same, once, with the response the code and the texts give when the
\* removal succeeds.
C24_RemovalFailureIgnored ==
    Closed /\ ~event.removed =>
        /\ rpc[event.request] = "done"
        /\ answers[event.request] = 1
        /\ closes[event.request] = 1
        /\ event.response = Answer(event.code, event.output, event.errorOutput)
        /\ event.response.status \in {200, 400}

C24_Witness ==
    /\ Closed
    /\ ~event.removed
    /\ event.response.status = 200
    /\ NetFile(TempDir(user[event.request])) \in DOMAIN files

\* C25: a request whose solver was spawned and has not terminated has sent no
\* response, has not called the removal and has not looked at the output;
\* nothing but the termination of its solver ends that.
C25_NothingBeforeTermination ==
    \A r \in Requests :
        StepAt(r, "spawn") > 0 /\ StepAt(r, "terminated") = 0 =>
            /\ rpc[r] = "running"
            /\ answers[r] = 0
            /\ closes[r] = 0
            /\ StepAt(r, "close") = 0
            /\ StepAt(r, "transcode") = 0

\* A solver is still running after a later request of the same identity has
\* been served to its end.
C25_Witness ==
    \E r, q \in Requests :
        /\ r < q
        /\ user[r] = user[q]
        /\ rpc[r] = "running"
        /\ answers[r] = 0
        /\ closes[q] = 1
        /\ Finished(q)

\* C26: a request is answered at most once; it has been answered exactly once
\* when it was ended before a solver was spawned and when the listener of the
\* termination of its solver has run, and not before.
C26_AnsweredOnce ==
    \A r \in Requests :
        /\ answers[r] <= 1
        /\ rpc[r] = "done" => answers[r] = 1
        /\ rpc[r] \in {"new", "running", "exited"} => answers[r] = 0
        /\ StepAt(r, "compile") > 0 /\ StepAt(r, "spawn") = 0 => answers[r] = 1
        /\ StepAt(r, "transcode") > 0 => answers[r] = 1

C26_Witness ==
    \E r, q \in Requests :
        /\ Closed /\ event.request = r /\ event.code = 1
        /\ answers[r] = 1
        /\ StepAt(q, "open") > 0 /\ StepAt(q, "spawn") = 0
        /\ answers[q] = 1

\* C27: from the write of its artifact to the termination of its solver, the
\* artifact of a request exists.
C27_ArtifactKeptWhileRunning ==
    \A r \in Requests :
        rpc[r] = "running" /\ StepAt(r, "write") > 0 =>
            NetFile(TempDir(user[r])) \in DOMAIN files

(***************************************************************************)
(* Properties of the client against the compiler.                          *)
(***************************************************************************)
\* The lines of the client that the edges of the call come from.
UiLines == [i \in 1..Len(edges) |-> UiLine(edges[i])]

\* C28: when every kind of the edge sequence is recognized, the name the
\* client shows for the edge at an index is the name the compiler gave to that
\* edge, whether or not the compiler emitted a line for it.
C28_UiNameIsCompilerName ==
    pc = "done" /\ ~LastReturned.null
                /\ (\A i \in 1..Len(edges) : edges[i].component \in Recognized) =>
        /\ Len(names) = Len(edges)
        /\ \A i \in 1..Len(edges) :
              /\ EdgeOfLine(UiLines[i]) = edges[i]
              /\ GetComponentName(i, UiLines) = names[i]

\* C28 witness: two resistors, the first an orphan without a line, the second
\* shown and emitted as R2.
C28_Witness ==
    /\ pc = "done"
    /\ Len(edges) = 2
    /\ edges[1].component = "resistor" /\ edges[2].component = "resistor"
    /\ Orphan(1) /\ ~Orphan(2)
    /\ emitted = <<FALSE, TRUE>>
    /\ GetComponentName(2, UiLines) = "R2"
    /\ names[2] = "R2"

\* C29: no two lines of a returned netlist carry the same component name.
C29_NamesUnique ==
    pc = "done" /\ ~LastReturned.null =>
        \A i, j \in 2..Len(LastReturned.text) :
            i # j => LastReturned.text[i][1] # LastReturned.text[j][1]

\* C30: for every unit, the sample at the end time that was sent is shown as
\* the number that was entered.
C30_EndTimeShownAsEntered ==
    ui.pc = "shown" => SameNumber(ui.shown, Fraction(ui.simulationTime, 1))

====
